---- MODULE Spec2Model ----
(***************************************************************************)
(* Event-study calculator: the per-event pipeline of class EventStudy      *)
(* (get_data, extract_event_data, calculate_regression_coefficients,       *)
(* calculate_CAR, single_sample_test), process_event_wrapper, and the      *)
(* resumable batch loop of main().                                         *)
(*                                                                         *)
(* Conventions.  Dates are day numbers.  Data frames are sequences of     *)
(* records in row order; positions are 0-based as in the Python code and   *)
(* Iloc/PySlice translate them.  A value that may be missing (None, NaN)   *)
(* is <<>> when missing and <<v>> when present.  Returns are integers;     *)
(* the OLS coefficients are the exact fractions num/den, and predicted,    *)
(* abnormal and cumulative abnormal returns are carried in units of 1/den. *)
(***************************************************************************)
EXTENDS Integers, Sequences, FiniteSets, TLC

VARIABLES
    \* ---- batch orchestration: main() and the worker pool
    event_info,        \* rows of 'Event study_data/event info.csv'
    num_processes,     \* size of the multiprocessing.Pool
    car_csv,           \* rows persisted in the abnormal-return (AR/CAR) csv
    t_test_csv,        \* rows persisted in the significance csv
    phase,             \* position of the main process
    runs,              \* number of times main() has been started
    processed_events,  \* main: set of (company_code, event_date) already persisted
    tasks,             \* main: list of rows to process in this run
    pending,           \* pool: positions in tasks not yet returned by a worker
    results,           \* pool: outcomes that arrived and are not yet handled
    cur,               \* main: outcome being written (between the two to_csv calls)
    success_count,
    fail_count,
    handled,           \* positions in tasks whose outcome the loop has handled
    skipped,           \* history: the handled positions whose outcome was (None, None)
    start_car,         \* history: car_csv as it was when this run started
    start_t_test,      \* history: t_test_csv as it was when this run started
    \* ---- one invocation of the per-event pipeline on a given frame
    p_in,              \* the inputs: merged frame, event date, window parameters, company_year
    p_stage,           \* position inside the pipeline
    p_ext,             \* result of extract_event_data
    p_reg,             \* result of calculate_regression_coefficients
    p_car,             \* result of calculate_CAR
    p_out,             \* car_result after the metadata columns and dropna, and t_test
    \* ---- one call of _get_index_code
    idx_in,            \* the arguments: company_code, custom_index
    idx_out,           \* the value returned, once the call has returned
    \* ---- one call of get_data followed by extract_event_data, on given data
    g_in,              \* the rows read (stock, index), event date, window parameters
    g_stage,           \* position: before get_data, after it, after extract_event_data
    g_merged,          \* what get_data returned
    g_ext              \* what extract_event_data returned

orchVars == <<event_info, num_processes, car_csv, t_test_csv, phase, runs,
              processed_events, tasks, pending, results, cur, success_count,
              fail_count, handled, skipped, start_car, start_t_test>>
pipeVars == <<p_in, p_stage, p_ext, p_reg, p_car, p_out>>
idxVars == <<idx_in, idx_out>>
dataVars == <<g_in, g_stage, g_merged, g_ext>>
vars == <<orchVars, pipeVars, idxVars, dataVars>>

----------------------------------------------------------------------------
(* Bounds of the model *)

MaxEvents == 2      \* rows of the event list
MaxRuns == 2        \* successive runs of main()
MaxProcs == 2       \* worker processes
MaxDate == 3        \* dates of a frame are in 1..MaxDate
MaxWin == 1         \* event_window_before/after and estimation_window_gap in 0..MaxWin
MaxLen == 2         \* estimation_window_length in 1..MaxLen
MaxPrefix == 999    \* company codes are p * 1000 + s with p in 0..MaxPrefix

(* Program constants: the parameters process_event_wrapper passes to EventStudy *)
EVENT_WINDOW_BEFORE == 3
EVENT_WINDOW_AFTER == 5
ESTIMATION_WINDOW_LENGTH == 120
ESTIMATION_WINDOW_GAP == 5

----------------------------------------------------------------------------
(* Python values and sequence helpers *)

None == <<>>
Some(v) == <<v>>
IsNone(x) == x = <<>>
Val(x) == x[1]

Min2(a, b) == IF a <= b THEN a ELSE b
Max2(a, b) == IF a >= b THEN a ELSE b
Abs(a) == IF a < 0 THEN -a ELSE a

\* frame.iloc[i], i >= 0
Iloc(s, i) == s[i + 1]

\* Python slice bound normalisation: negative counts from the end, then clamp
SliceBound(i, n) == IF i < 0 THEN Max2(0, i + n) ELSE Min2(i, n)

\* frame.iloc[a:b]
PySlice(s, a, b) ==
    LET lo == SliceBound(a, Len(s))
        hi == SliceBound(b, Len(s))
    IN  IF lo >= hi THEN <<>> ELSE SubSeq(s, lo + 1, hi)

RECURSIVE SumSeq(_)
SumSeq(s) == IF s = <<>> THEN 0 ELSE s[1] + SumSeq(Tail(s))

Column(frame, f) == [i \in 1..Len(frame) |-> frame[i][f]]

\* Series.cumsum()
Cumsum(s) == [k \in 1..Len(s) |-> SumSeq(SubSeq(s, 1, k))]

RECURSIVE Digits(_)
\* str(n) for a natural number, as its sequence of decimal digits
Digits(n) == IF n < 10 THEN <<n>> ELSE Append(Digits(n \div 10), n % 10)

\* str.zfill(width)
Zfill(s, width) ==
    IF Len(s) >= width THEN s ELSE [i \in 1..(width - Len(s)) |-> 0] \o s

\* str.startswith(prefix)
StartsWith(s, p) == Len(s) >= Len(p) /\ SubSeq(s, 1, Len(p)) = p

\* str.startswith(tuple of prefixes)
StartsWithAny(s, ps) == \E p \in ps : StartsWith(s, p)

----------------------------------------------------------------------------
(* class EventStudy *)

\* EventStudy(...): the four window parameters of an instance
EventStudy(before, after, length, gap) ==
    [event_window_before |-> before, event_window_after |-> after,
     estimation_window_length |-> length, estimation_window_gap |-> gap]

\* _validate_parameters: TRUE when the constructor does not raise ValueError
ValidParameters(es) ==
    /\ ~(es.event_window_before < 0 \/ es.event_window_after < 0)
    /\ ~(es.estimation_window_length <= 0)
    /\ ~(es.estimation_window_gap < 0)

\* self.index_mapping: the index codes the instance knows
index_mapping == {"000300", "000001", "399106"}

SkipPrefixes == {<<8>>, <<9>>}
ShPrefixes == {<<6,0,0>>, <<6,0,1>>, <<6,0,3>>, <<6,0,5>>, <<6,8,8>>, <<6,8,9>>}
SzPrefixes == {<<0,0,0>>, <<0,0,1>>, <<0,0,2>>, <<0,0,3>>, <<3,0,0>>, <<3,0,1>>}

\* a market test that does not know the Shenzhen prefixes
GetCompanyMarket_NoSz(company_code) ==
    LET full_code == Zfill(Digits(company_code), 6)
    IN  IF StartsWithAny(full_code, SkipPrefixes) THEN None
        ELSE IF StartsWithAny(full_code, ShPrefixes) THEN Some("sh")
        ELSE Some("hs300")

\* _get_company_market: Some("sh"), Some("sz"), Some("hs300"), or None to skip
GetCompanyMarket(company_code) ==
    LET full_code == Zfill(Digits(company_code), 6)
    IN  IF StartsWithAny(full_code, SkipPrefixes) THEN None
        ELSE IF StartsWithAny(full_code, ShPrefixes) THEN Some("sh")
        ELSE IF StartsWithAny(full_code, SzPrefixes) THEN Some("sz")
        ELSE Some("hs300")

\* _get_index_code: custom_index is None or Some(code)
GetIndexCode(company_code, custom_index) ==
    IF ~IsNone(custom_index) /\ Val(custom_index) \in index_mapping
    THEN custom_index
    ELSE LET market == GetCompanyMarket(company_code)
         IN  IF IsNone(market) THEN None
             ELSE IF Val(market) = "sh" THEN Some("000001")
             ELSE IF Val(market) = "sz" THEN Some("399106")
             ELSE Some("000300")

----------------------------------------------------------------------------
(* The data the pipeline reads: the index file and the stock database.     *)
(* A row is [date, ret] with ret missing (<<>>) or present (<<r>>).        *)

Row(d, r) == [date |-> d, ret |-> r]

\* TRD_Index.xlsx filtered on Indexcd: every index trades on days 1..4
IndexRows(index_code) ==
    IF index_code = "000300"
    THEN <<Row(1, Some(1)), Row(2, Some(0)), Row(3, Some(2)), Row(4, Some(1))>>
    ELSE IF index_code \in {"000001", "399106"}
    THEN <<Row(1, Some(0)), Row(2, Some(1)), Row(3, Some(1)), Row(4, Some(2))>>
    ELSE <<>>

\* SELECT Trddt, Dretnd FROM daily_data WHERE Stkcd = company_code
StockRows(company_code) ==
    CASE company_code = 600001 ->
            <<Row(1, Some(1)), Row(2, Some(1)), Row(3, Some(0)), Row(4, Some(2))>>
      [] company_code = 800001 ->
            <<Row(1, Some(0)), Row(2, None), Row(3, Some(1)), Row(4, Some(1))>>
      [] company_code = 2 ->
            <<Row(2, Some(1))>>
      [] company_code = 300001 ->
            <<Row(3, Some(1))>>
      [] company_code = 300002 ->
            <<Row(1, None), Row(2, None)>>
      [] OTHER -> <<>>

----------------------------------------------------------------------------
(* get_data *)

\* step 6: the trading day of the index calendar used as day zero
ClosestTradingDay(index_data, event_date) ==
    LET dates == Column(index_data, "date")
        n == Len(dates)
        is_trading_day == \E i \in 1..n : dates[i] = event_date
        future == {dates[i] : i \in {j \in 1..n : dates[j] > event_date}}
        \* idxmin: the first row with the least absolute difference
        closest_idx == CHOOSE i \in 1..n :
                          /\ \A j \in 1..n : Abs(dates[i] - event_date) <= Abs(dates[j] - event_date)
                          /\ \A j \in 1..(i - 1) : Abs(dates[j] - event_date) > Abs(dates[i] - event_date)
    IN  IF is_trading_day THEN event_date
        ELSE IF future # {} THEN CHOOSE d \in future : \A e \in future : d <= e
        ELSE dates[closest_idx]

\* pd.merge(stock_data, index_data, on='date'): inner join, left row order
RECURSIVE Merge(_, _)
Merge(stock_data, index_data) ==
    IF stock_data = <<>> THEN <<>>
    ELSE LET s == Head(stock_data)
             hits == SelectSeq(index_data, LAMBDA x : x.date = s.date)
         IN  [k \in 1..Len(hits) |->
                 [date |-> s.date, stock_return |-> s.ret, index_return |-> hits[k].ret]]
             \o Merge(Tail(stock_data), index_data)

\* step 10: to_numeric, dropna(subset=[stock_return, index_return]), then plain numbers
DropMissingReturns(merged) ==
    LET kept == SelectSeq(merged, LAMBDA r : ~IsNone(r.stock_return) /\ ~IsNone(r.index_return))
    IN  [k \in 1..Len(kept) |->
            [date |-> kept[k].date, stock_return |-> Val(kept[k].stock_return),
             index_return |-> Val(kept[k].index_return)]]

\* steps 6-10 on the rows read; None, or Some(frame [date, stock_return, index_return])
AlignAndMerge(es, stock_data, index_data, event_date) ==
    LET closest_date == ClosestTradingDay(index_data, event_date)
        trading_days == SortSeq(Column(index_data, "date"), LAMBDA a, b : a < b)
        matching == {i \in 1..Len(trading_days) : trading_days[i] = closest_date}
        event_idx == (CHOOSE i \in matching : \A j \in matching : i <= j) - 1
        estimated_start_idx == event_idx - es.estimation_window_length
                               - es.estimation_window_gap - es.event_window_before
        start_idx == Max2(0, estimated_start_idx)
        end_idx == Min2(Len(trading_days), event_idx + es.event_window_after + 1)
        start_date == Iloc(trading_days, start_idx)
        end_date == Iloc(trading_days, end_idx - 1)
        in_range(r) == r.date >= start_date /\ r.date <= end_date
        index_cut == SelectSeq(index_data, in_range)
        stock_cut == SelectSeq(stock_data, in_range)
        merged_data == Merge(stock_cut, index_cut)
    IN  IF matching = {} THEN None
        ELSE IF start_idx >= Len(trading_days) \/ end_idx <= 0 THEN None
        ELSE IF index_cut = <<>> \/ stock_cut = <<>> THEN None
        ELSE IF merged_data = <<>> THEN None
        ELSE Some(DropMissingReturns(merged_data))

\* get_data: an exception inside (fault) is caught and None is returned
GetData(es, company_code, event_date, custom_index, fault) ==
    LET index_code == GetIndexCode(company_code, custom_index)
    IN  IF fault = "get_data" THEN None
        ELSE IF IsNone(index_code) THEN None
        ELSE IF IndexRows(Val(index_code)) = <<>> THEN None
        ELSE IF StockRows(company_code) = <<>> THEN None
        ELSE AlignAndMerge(es, StockRows(company_code), IndexRows(Val(index_code)), event_date)

----------------------------------------------------------------------------
(* extract_event_data.  data_frame rows are [date, stock_return,           *)
(* index_return]; positions are 0-based.                                   *)

\* date_diffs.idxmin(): the first row with the least |date - event_date|
IdxMin(data_frame, event_date) ==
    (CHOOSE i \in 1..Len(data_frame) :
        /\ \A j \in 1..Len(data_frame) :
              Abs(data_frame[i].date - event_date) <= Abs(data_frame[j].date - event_date)
        /\ \A j \in 1..(i - 1) :
              Abs(data_frame[j].date - event_date) > Abs(data_frame[i].date - event_date)) - 1

\* future_indices: rows dated after the event date, in row order
FutureIndices(data_frame, event_date) ==
    {i \in 0..(Len(data_frame) - 1) : Iloc(data_frame, i).date > event_date}

\* a day zero that is always the nearest row, with no preference for a later day
EventIdx_Nearest(data_frame, event_date) == IdxMin(data_frame, event_date)

\* event_idx: the row used as day zero
EventIdx(data_frame, event_date) ==
    LET nearest == IdxMin(data_frame, event_date)
        is_trading_day == Iloc(data_frame, nearest).date = event_date
        future_indices == FutureIndices(data_frame, event_date)
    IN  IF ~is_trading_day /\ future_indices # {}
        THEN CHOOSE i \in future_indices : \A j \in future_indices : i <= j
        ELSE nearest

\* a window start that is not clipped at the first row
EventStartIdx_NoClip(es, data_frame, event_date) ==
    EventIdx(data_frame, event_date) - es.event_window_before

EventStartIdx(es, data_frame, event_date) ==
    Max2(0, EventIdx(data_frame, event_date) - es.event_window_before)

EventEndIdx(es, data_frame, event_date) ==
    Min2(Len(data_frame), EventIdx(data_frame, event_date) + es.event_window_after + 1)

EstimationStartIdx(es, data_frame, event_date) ==
    LET estimation_end_idx == EventStartIdx(es, data_frame, event_date) - es.estimation_window_gap
    IN  Max2(0, estimation_end_idx - es.estimation_window_length)

\* estimation_end_idx after the clip and the extension to the right
EstimationEndIdx(es, data_frame, event_date) ==
    LET estimation_start_idx == EstimationStartIdx(es, data_frame, event_date)
        estimation_end_idx ==
            Min2(Len(data_frame), EventStartIdx(es, data_frame, event_date) - es.estimation_window_gap)
        actual_estimation_length == estimation_end_idx - estimation_start_idx
        additional_days_needed == es.estimation_window_length - actual_estimation_length
    IN  IF actual_estimation_length < es.estimation_window_length /\ estimation_start_idx = 0
        THEN Min2(estimation_end_idx + additional_days_needed, Len(data_frame))
        ELSE estimation_end_idx

ExtractFailed == [ok |-> FALSE, estimation_data |-> <<>>, event_data |-> <<>>,
                  event_idx_in_window |-> -1]

\* extract_event_data: idxmin raises on an empty frame; any exception inside
\* (fault) is caught and (None, None, -1) is returned
ExtractEventData(es, event_date, data_frame, fault) ==
    IF fault = "extract_event_data" \/ data_frame = <<>> THEN ExtractFailed
    ELSE [ok |-> TRUE,
          estimation_data |-> PySlice(data_frame, EstimationStartIdx(es, data_frame, event_date),
                                      EstimationEndIdx(es, data_frame, event_date)),
          event_data |-> PySlice(data_frame, EventStartIdx(es, data_frame, event_date),
                                 EventEndIdx(es, data_frame, event_date)),
          event_idx_in_window |-> EventIdx(data_frame, event_date)
                                  - EventStartIdx(es, data_frame, event_date)]

----------------------------------------------------------------------------
(* calculate_regression_coefficients: OLS of stock_return on index_return  *)
(* with sm.add_constant(X) and sm.OLS(y, X).fit().                         *)
(*  - an empty X makes add_constant raise (ptp of a zero-size array);      *)
(*  - add_constant (has_constant='skip') adds no column when X is already  *)
(*    a non-zero constant, so params has one entry and params[1] raises;   *)
(*  - otherwise params = pinv(X) y: the least-squares line, and for a      *)
(*    regressor that is all zero the minimum-norm solution (mean(y), 0).   *)
(* alpha = alpha_num / den, beta = beta_num / den, den > 0.                *)

RegressionRaised == [raised |-> TRUE, alpha_num |-> 0, beta_num |-> 0, den |-> 1]

CalculateRegressionCoefficients(estimation_data, fault) ==
    LET X == Column(estimation_data, "index_return")
        y == Column(estimation_data, "stock_return")
        n == Len(X)
        Sx == SumSeq(X)
        Sy == SumSeq(y)
        Sxx == SumSeq([i \in 1..n |-> X[i] * X[i]])
        Sxy == SumSeq([i \in 1..n |-> X[i] * y[i]])
        is_nonzero_const == (\A i \in 1..n : X[i] = X[1]) /\ (\A i \in 1..n : X[i] # 0)
        D == n * Sxx - Sx * Sx
    IN  IF fault = "calculate_regression_coefficients" THEN RegressionRaised
        ELSE IF n = 0 THEN RegressionRaised
        ELSE IF is_nonzero_const THEN RegressionRaised
        ELSE IF D = 0 THEN [raised |-> FALSE, alpha_num |-> Sy, beta_num |-> 0, den |-> n]
        ELSE [raised |-> FALSE, alpha_num |-> Sy * Sxx - Sx * Sxy,
              beta_num |-> n * Sxy - Sx * Sy, den |-> D]

----------------------------------------------------------------------------
(* calculate_CAR.  predicted_return, abnormal_return and                   *)
(* cumulative_abnormal_return are numerators over the row's den.           *)

\* a labelling loop that loses the sign of the days before day zero
RelativeDay_Unsigned(i, event_idx_in_window) ==
    IF i < event_idx_in_window THEN event_idx_in_window - i
    ELSE i - event_idx_in_window

\* the loop over range(len(event_data)) that sets relative_day
RelativeDay(i, event_idx_in_window) ==
    IF i < event_idx_in_window THEN -(event_idx_in_window - i)
    ELSE IF i = event_idx_in_window THEN 0
    ELSE i - event_idx_in_window

PredictedReturn(row, reg) == row.index_return * reg.beta_num + reg.alpha_num

AbnormalReturn(row, reg) == reg.den * row.stock_return - PredictedReturn(row, reg)

\* a cumulative return that starts again at every row
CumulativeAbnormalReturn_NoSum(event_data, reg) ==
    [i \in 1..Len(event_data) |-> AbnormalReturn(event_data[i], reg)]

\* event_data['abnormal_return'].cumsum()
CumulativeAbnormalReturn(event_data, reg) ==
    Cumsum([i \in 1..Len(event_data) |-> AbnormalReturn(event_data[i], reg)])

CalculateCAR(event_data, reg, event_date, event_idx_in_window, fault) ==
    IF fault = "calculate_CAR" THEN [raised |-> TRUE, rows |-> <<>>]
    ELSE [raised |-> FALSE,
          rows |-> [i \in 1..Len(event_data) |->
              [date |-> event_data[i].date,
               stock_return |-> event_data[i].stock_return,
               index_return |-> event_data[i].index_return,
               date_only |-> event_data[i].date,
               den |-> reg.den,
               predicted_return |-> PredictedReturn(event_data[i], reg),
               abnormal_return |-> AbnormalReturn(event_data[i], reg),
               cumulative_abnormal_return |-> CumulativeAbnormalReturn(event_data, reg)[i],
               event_date |-> event_date,
               relative_day |-> RelativeDay(i - 1, event_idx_in_window),
               trading_day_position |-> RelativeDay(i - 1, event_idx_in_window)]]]

----------------------------------------------------------------------------
(* single_sample_test: ttest_1samp(event_car, popmean=0).  The statistic   *)
(* is NaN (missing) for fewer than two values and for a sample that is     *)
(* constant zero, infinite for a constant non-zero sample, finite else.   *)

\* a test that refuses a sample of fewer than two values
SingleSampleTest_Strict(car_data, event_date, fault) ==
    LET event_car == SelectSeq(car_data, LAMBDA r : r.event_date = event_date)
    IN  IF fault = "single_sample_test" \/ Len(event_car) < 2
        THEN [raised |-> TRUE, rows |-> <<>>]
        ELSE [raised |-> FALSE,
              rows |-> <<[event_date |-> event_date,
                          mean_CAR |-> Some(<<SumSeq(Column(event_car, "cumulative_abnormal_return")),
                                              Len(event_car)>>),
                          t_stat |-> Some("finite"), p_value |-> Some("finite")]>>]

SingleSampleTest(car_data, event_date, fault) ==
    LET event_car == Column(SelectSeq(car_data, LAMBDA r : r.event_date = event_date),
                            "cumulative_abnormal_return")
        n == Len(event_car)
        constant == \A i \in 1..n : event_car[i] = event_car[1]
        t_stat == IF n < 2 THEN None
                  ELSE IF constant THEN (IF event_car[1] = 0 THEN None ELSE Some("inf"))
                  ELSE Some("finite")
        p_value == IF IsNone(t_stat) THEN None
                   ELSE IF Val(t_stat) = "inf" THEN Some("zero") ELSE Some("finite")
        mean_CAR == IF n = 0 THEN None ELSE Some(<<SumSeq(event_car), n>>)
    IN  IF fault = "single_sample_test" THEN [raised |-> TRUE, rows |-> <<>>]
        ELSE [raised |-> FALSE,
              rows |-> <<[event_date |-> event_date, mean_CAR |-> mean_CAR,
                          t_stat |-> t_stat, p_value |-> p_value]>>]

----------------------------------------------------------------------------
(* process_event_wrapper.  row_data is one row of the event list:          *)
(* [company_code, event_date, company_year, industry_code,                 *)
(*  company_province, company_city], the last four possibly missing.       *)

\* An exception raised inside one stage (I/O error, unexpected data), or none
Faults == {"none", "get_data", "extract_event_data",
           "calculate_regression_coefficients", "calculate_CAR", "single_sample_test"}

Return(car, tt) == [kind |-> "return", car_result |-> car, t_test |-> tt]
Raise == [kind |-> "raise", car_result |-> None, t_test |-> None]

\* desired_columns_order; the last three are the Chinese column names for
\* industry code, province and city (written here in pinyin), which no column
\* of car_result bears; den is the unit of the three computed returns
desired_columns_order ==
    {"company_code", "company_year", "trading_date", "event_date", "relative_day",
     "stock_return", "index_return", "date_only", "den", "predicted_return",
     "abnormal_return", "cumulative_abnormal_return",
     "gongsi_hangye_daima", "gongsi_shengfen", "gongsi_chengshi"}

\* the columns that hold a value which may be missing
NullableColumns == {"company_year", "industry_code", "company_province", "company_city",
                    "mean_CAR", "t_stat", "p_value"}

\* DataFrame.dropna(): drop every row with a missing value in any column
DropNa(frame) ==
    SelectSeq(frame, LAMBDA r : \A f \in NullableColumns \cap DOMAIN r : ~IsNone(r[f]))

\* lines 515-541: add the company columns, drop trading_day_position, rename
\* date to trading_date, keep the desired columns that exist
CarResultColumns(car_rows, row_data) ==
    LET AddInfo(r) ==
            [f \in ((DOMAIN r \ {"trading_day_position", "date"}) \cup
                    {"trading_date", "company_code", "company_year", "industry_code",
                     "company_province", "company_city"}) |->
                CASE f = "trading_date" -> r.date
                  [] f = "company_code" -> row_data.company_code
                  [] f = "company_year" -> row_data.company_year
                  [] f = "industry_code" -> row_data.industry_code
                  [] f = "company_province" -> row_data.company_province
                  [] f = "company_city" -> row_data.company_city
                  [] OTHER -> r[f]]
        Keep(r) == [f \in (DOMAIN r \cap desired_columns_order) |-> r[f]]
    IN  [i \in 1..Len(car_rows) |-> Keep(AddInfo(car_rows[i]))]

\* lines 547-550: add company_code to the test row, dropna
TTestColumns(t_rows, company_code) ==
    DropNa([i \in 1..Len(t_rows) |->
               [company_code |-> company_code, event_date |-> t_rows[i].event_date,
                mean_CAR |-> t_rows[i].mean_CAR, t_stat |-> t_rows[i].t_stat,
                p_value |-> t_rows[i].p_value]])

\* the body of the try block: a return value, or an exception leaving it
WrapperBody(row_data, fault) ==
    LET company_code == row_data.company_code
        event_date == row_data.event_date
        event_study == EventStudy(EVENT_WINDOW_BEFORE, EVENT_WINDOW_AFTER,
                                  ESTIMATION_WINDOW_LENGTH, ESTIMATION_WINDOW_GAP)
        merged_data == GetData(event_study, company_code, event_date, Some("000300"), fault)
        ext == ExtractEventData(event_study, event_date, Val(merged_data), fault)
        reg == CalculateRegressionCoefficients(ext.estimation_data, fault)
        car == CalculateCAR(ext.event_data, reg, event_date, ext.event_idx_in_window, fault)
        car_result == DropNa(CarResultColumns(car.rows, row_data))
        test == SingleSampleTest(car_result, event_date, fault)
    IN  IF ~ValidParameters(event_study) THEN Raise
        ELSE IF IsNone(merged_data) THEN Return(None, None)
        ELSE IF ~ext.ok THEN Return(None, None)
        ELSE IF reg.raised THEN Raise
        ELSE IF car.raised THEN Raise
        ELSE IF test.raised THEN Raise
        ELSE Return(Some(car_result), Some(TTestColumns(test.rows, company_code)))

\* process_event_wrapper without its except clause
ProcessEventWrapper_NoExcept(row_data, fault) == WrapperBody(row_data, fault)

\* process_event_wrapper: except Exception -> return None, None
ProcessEventWrapper(row_data, fault) ==
    LET r == WrapperBody(row_data, fault)
    IN  IF r.kind = "raise" THEN Return(None, None) ELSE r

----------------------------------------------------------------------------
(* main(): the event list, the scan of the persisted output, the pool and  *)
(* the collect loop                                                        *)

EventRow(code, date, year) ==
    [company_code |-> code, event_date |-> date, company_year |-> year,
     industry_code |-> Some("C39"), company_province |-> Some("GD"),
     company_city |-> Some("SZ")]

\* the rows an event list is made of
EventCatalogue ==
    {EventRow(600001, 2, Some(2020)),   \* full data
     EventRow(800001, 3, Some(2020)),   \* code starting with 8, has stock data
     EventRow(2, 2, Some(2021)),        \* one merged row, index return 0
     EventRow(300001, 3, Some(2021)),   \* one merged row, index return not 0
     EventRow(300002, 1, Some(2021)),   \* stock returns all missing
     EventRow(688001, 1, Some(2020)),   \* no stock data
     EventRow(600001, 5, None)}         \* company_year missing

\* the identity key as main() compares it: (str(company_code), str(event_date))
Key(row) == <<row.company_code, row.event_date>>

Keys(frame) == {Key(frame[i]) : i \in 1..Len(frame)}

\* lines 570-580: the keys recovered from the persisted abnormal-return csv
ScanExisting(existing_data) == Keys(existing_data)

\* a task list that forgets the check against processed_events
BuildTasks_NoSkip(event_data, processed) == event_data

\* lines 582-592: the rows whose key is not in processed_events, in order
BuildTasks(event_data, processed) ==
    SelectSeq(event_data, LAMBDA row : Key(row) \notin processed)

\* pool.imap_unordered(process_event_wrapper, tasks): what a worker returns for
\* each row of the event list and each fault, tabulated once
WorkerOutcome ==
    [row_data \in EventCatalogue |->
        [fault \in Faults |-> ProcessEventWrapper(row_data, fault)]]

NoCur == [task |-> 0, outcome |-> Return(None, None)]

OrchInit ==
    /\ event_info \in UNION {[1..n -> EventCatalogue] : n \in 1..MaxEvents}
    /\ num_processes \in 1..MaxProcs
    /\ car_csv = <<>>
    /\ t_test_csv = <<>>
    /\ phase = "INIT"
    /\ runs = 0
    /\ processed_events = {}
    /\ tasks = <<>>
    /\ pending = {}
    /\ results = <<>>
    /\ cur = NoCur
    /\ success_count = 0
    /\ fail_count = 0
    /\ handled = {}
    /\ skipped = {}
    /\ start_car = <<>>
    /\ start_t_test = <<>>

\* main() is started (first run, re-run after completion, or resume after a
\* kill): lines 559-610, up to the creation of the pool
StartRun ==
    /\ phase \in {"INIT", "DONE", "KILLED", "ABORTED", "FATAL"}
    /\ runs < MaxRuns
    /\ runs' = runs + 1
    /\ processed_events' = ScanExisting(car_csv)
    /\ tasks' = BuildTasks(event_info, processed_events')
    /\ pending' = 1..Len(tasks')
    /\ results' = <<>>
    /\ cur' = NoCur
    /\ success_count' = 0
    /\ fail_count' = 0
    /\ handled' = {}
    /\ skipped' = {}
    /\ start_car' = car_csv
    /\ start_t_test' = t_test_csv
    /\ phase' = IF tasks' = <<>> THEN "DONE" ELSE "COLLECT"
    /\ UNCHANGED <<event_info, num_processes, car_csv, t_test_csv>>
    /\ UNCHANGED <<pipeVars, idxVars, dataVars>>

\* main() is started and lines 562-565 raise (the event list is missing or
\* unreadable, the results directory cannot be made): lines 650-652 log the
\* error and raise it again, before any task list or pool exists
ReadEventsFails ==
    /\ phase \in {"INIT", "DONE", "KILLED", "ABORTED", "FATAL"}
    /\ runs < MaxRuns
    /\ runs' = runs + 1
    /\ processed_events' = {}
    /\ tasks' = <<>>
    /\ pending' = {}
    /\ results' = <<>>
    /\ cur' = NoCur
    /\ success_count' = 0
    /\ fail_count' = 0
    /\ handled' = {}
    /\ skipped' = {}
    /\ start_car' = car_csv
    /\ start_t_test' = t_test_csv
    /\ phase' = "FATAL"
    /\ UNCHANGED <<event_info, num_processes, car_csv, t_test_csv>>
    /\ UNCHANGED <<pipeVars, idxVars, dataVars>>

\* a pool worker returns the outcome of tasks[i]; the pool hands tasks out in
\* order, so at most num_processes tasks are in progress
WorkerFinish ==
    /\ phase \in {"COLLECT", "WRITE_T_TEST"}
    /\ \E i \in pending :
         /\ Cardinality({j \in pending : j < i}) < num_processes
         /\ \E fault \in Faults :
              results' = Append(results, [task |-> i,
                                          outcome |-> WorkerOutcome[tasks[i]][fault]])
         /\ pending' = pending \ {i}
    /\ UNCHANGED <<event_info, num_processes, car_csv, t_test_csv, phase, runs,
                   processed_events, tasks, cur, success_count, fail_count, handled,
                   skipped, start_car, start_t_test>>
    /\ UNCHANGED <<pipeVars, idxVars, dataVars>>

\* lines 618-626 and 637-638: the loop takes the next arrived outcome; a
\* success is counted and its abnormal-return rows are appended; an exception
\* of the worker is re-raised by the pool iterator and main() aborts
CollectResult ==
    /\ phase = "COLLECT"
    /\ results # <<>>
    /\ LET res == Head(results)
           car_result == res.outcome.car_result
           t_test == res.outcome.t_test
       IN  IF res.outcome.kind = "raise"
           THEN /\ phase' = "ABORTED"
                /\ UNCHANGED <<car_csv, cur, success_count, fail_count, handled, skipped>>
           ELSE IF ~IsNone(car_result) /\ ~IsNone(t_test)
           THEN /\ success_count' = success_count + 1
                /\ car_csv' = car_csv \o Val(car_result)
                /\ cur' = res
                /\ phase' = "WRITE_T_TEST"
                /\ UNCHANGED <<fail_count, handled, skipped>>
           ELSE /\ fail_count' = fail_count + 1
                /\ handled' = handled \cup {res.task}
                /\ skipped' = skipped \cup {res.task}
                /\ UNCHANGED <<car_csv, cur, success_count, phase>>
    /\ results' = Tail(results)
    /\ UNCHANGED <<event_info, num_processes, t_test_csv, runs, processed_events,
                   tasks, pending, start_car, start_t_test>>
    /\ UNCHANGED <<pipeVars, idxVars, dataVars>>

\* lines 619-626 when to_csv raises on the abnormal-return csv (the path is
\* not writable): the success was counted, nothing is appended, the with
\* block terminates the pool and lines 650-652 raise the error again
WriteCarFails ==
    /\ phase = "COLLECT"
    /\ results # <<>>
    /\ Head(results).outcome.kind = "return"
    /\ ~IsNone(Head(results).outcome.car_result)
    /\ ~IsNone(Head(results).outcome.t_test)
    /\ success_count' = success_count + 1
    /\ cur' = Head(results)
    /\ pending' = {}
    /\ results' = <<>>
    /\ phase' = "FATAL"
    /\ UNCHANGED <<event_info, num_processes, car_csv, t_test_csv, runs,
                   processed_events, tasks, fail_count, handled, skipped, start_car,
                   start_t_test>>
    /\ UNCHANGED <<pipeVars, idxVars, dataVars>>

\* lines 628-632 when to_csv raises on the significance csv: the
\* abnormal-return rows of the outcome are already appended
WriteTTestFails ==
    /\ phase = "WRITE_T_TEST"
    /\ pending' = {}
    /\ results' = <<>>
    /\ phase' = "FATAL"
    /\ UNCHANGED <<event_info, num_processes, car_csv, t_test_csv, runs,
                   processed_events, tasks, cur, success_count, fail_count, handled,
                   skipped, start_car, start_t_test>>
    /\ UNCHANGED <<pipeVars, idxVars, dataVars>>

\* lines 628-632: the significance rows of the same outcome are appended
WriteTTest ==
    /\ phase = "WRITE_T_TEST"
    /\ t_test_csv' = t_test_csv \o Val(cur.outcome.t_test)
    /\ handled' = handled \cup {cur.task}
    /\ cur' = NoCur
    /\ phase' = "COLLECT"
    /\ UNCHANGED <<event_info, num_processes, car_csv, runs, processed_events, tasks,
                   pending, results, success_count, fail_count, skipped, start_car,
                   start_t_test>>
    /\ UNCHANGED <<pipeVars, idxVars, dataVars>>

\* a loop that may end while outcomes are still outstanding
FinishRun_Early ==
    /\ phase = "COLLECT"
    /\ phase' = "DONE"
    /\ UNCHANGED <<event_info, num_processes, car_csv, t_test_csv, runs,
                   processed_events, tasks, pending, results, cur, success_count,
                   fail_count, handled, skipped, start_car, start_t_test>>
    /\ UNCHANGED <<pipeVars, idxVars, dataVars>>

\* line 648: every task has returned and was handled
FinishRun ==
    /\ phase = "COLLECT"
    /\ pending = {}
    /\ results = <<>>
    /\ phase' = "DONE"
    /\ UNCHANGED <<event_info, num_processes, car_csv, t_test_csv, runs,
                   processed_events, tasks, pending, results, cur, success_count,
                   fail_count, handled, skipped, start_car, start_t_test>>
    /\ UNCHANGED <<pipeVars, idxVars, dataVars>>

\* the process is killed during the collect loop; the pool dies with it and
\* only the two csv files survive
Kill ==
    /\ phase \in {"COLLECT", "WRITE_T_TEST"}
    /\ phase' = "KILLED"
    /\ pending' = {}
    /\ results' = <<>>
    /\ UNCHANGED <<event_info, num_processes, car_csv, t_test_csv, runs,
                   processed_events, tasks, cur, success_count, fail_count, handled,
                   skipped, start_car, start_t_test>>
    /\ UNCHANGED <<pipeVars, idxVars, dataVars>>

PipeIdle ==
    /\ p_in = [data_frame |-> <<>>, event_date |-> 0, es |-> EventStudy(0, 0, 1, 0)]
    /\ p_stage = "idle"
    /\ p_ext = ExtractFailed
    /\ p_reg = RegressionRaised
    /\ p_car = <<>>
    /\ p_out = Return(None, None)

\* no call of _get_index_code is under way
IdxIdle ==
    /\ idx_in = [company_code |-> 0, custom_index |-> None]
    /\ idx_out = [returned |-> FALSE, value |-> None]

\* no separate call of get_data is under way
DataIdle ==
    /\ g_in = [stock_data |-> <<>>, index_data |-> <<>>, event_date |-> 0,
               es |-> EventStudy(0, 0, 1, 0)]
    /\ g_stage = "idle"
    /\ g_merged = None
    /\ g_ext = ExtractFailed

Init == OrchInit /\ PipeIdle /\ IdxIdle /\ DataIdle

Next ==
    \/ StartRun
    \/ ReadEventsFails
    \/ WorkerFinish
    \/ CollectResult
    \/ WriteCarFails
    \/ WriteTTest
    \/ WriteTTestFails
    \/ FinishRun
    \/ Kill

Spec == Init /\ [][Next]_vars

\* Runs that no kill and no I/O error of the main process interrupts, in
\* which every worker returns the outcome of the task it took (the pool keeps
\* its processes busy while tasks remain) and the main process keeps taking
\* what imap_unordered yields
NextRun ==
    \/ StartRun
    \/ WorkerFinish
    \/ CollectResult
    \/ WriteTTest
    \/ FinishRun

SpecRun ==
    /\ Init
    /\ [][NextRun]_vars
    /\ WF_vars(WorkerFinish)
    /\ WF_vars(CollectResult)
    /\ WF_vars(WriteTTest)
    /\ WF_vars(FinishRun)

----------------------------------------------------------------------------
(* One invocation of the pipeline on a frame as get_data returns it, for   *)
(* every frame, event date and window parameters within the bounds.        *)

StockVals == {0, 1}
IndexVals == {0, 1}

RECURSIVE SortedSeqOf(_)
\* the elements of a finite set of numbers in increasing order
SortedSeqOf(S) ==
    IF S = {} THEN <<>>
    ELSE LET m == CHOOSE x \in S : \A y \in S : x <= y
         IN  <<m>> \o SortedSeqOf(S \ {m})

\* the merged frames: unique dates in chronological order, no missing return
Frames ==
    UNION {{[k \in 1..Cardinality(S) |->
                [date |-> SortedSeqOf(S)[k],
                 stock_return |-> sr[SortedSeqOf(S)[k]],
                 index_return |-> ir[SortedSeqOf(S)[k]]]] :
             sr \in [S -> StockVals], ir \in [S -> IndexVals]} :
           S \in SUBSET (1..MaxDate)}

\* the parameter sets _validate_parameters accepts, within the bounds
ParameterSets ==
    {EventStudy(b, a, l, g) : b \in 0..MaxWin, a \in 0..MaxWin, l \in 1..MaxLen, g \in 0..MaxWin}

OrchIdle ==
    /\ event_info = <<>>
    /\ num_processes = 1
    /\ car_csv = <<>>
    /\ t_test_csv = <<>>
    /\ phase = "INIT"
    /\ runs = 0
    /\ processed_events = {}
    /\ tasks = <<>>
    /\ pending = {}
    /\ results = <<>>
    /\ cur = NoCur
    /\ success_count = 0
    /\ fail_count = 0
    /\ handled = {}
    /\ skipped = {}
    /\ start_car = <<>>
    /\ start_t_test = <<>>

PipeInit ==
    /\ p_in \in [data_frame : Frames, event_date : 0..(MaxDate + 1), es : ParameterSets]
    /\ p_stage = "get_data"
    /\ p_ext = ExtractFailed
    /\ p_reg = RegressionRaised
    /\ p_car = <<>>
    /\ p_out = Return(None, None)

\* line 504-507
PExtract ==
    /\ p_stage = "get_data"
    /\ p_ext' = ExtractEventData(p_in.es, p_in.event_date, p_in.data_frame, "none")
    /\ p_stage' = IF p_ext'.ok THEN "extract_event_data" ELSE "returned"
    /\ UNCHANGED <<p_in, p_reg, p_car, p_out>>
    /\ UNCHANGED <<orchVars, idxVars, dataVars>>

\* line 510
PRegress ==
    /\ p_stage = "extract_event_data"
    /\ p_reg' = CalculateRegressionCoefficients(p_ext.estimation_data, "none")
    /\ p_stage' = IF p_reg'.raised THEN "returned" ELSE "calculate_regression_coefficients"
    /\ UNCHANGED <<p_in, p_ext, p_car, p_out>>
    /\ UNCHANGED <<orchVars, idxVars, dataVars>>

\* line 513
PCalculateCAR ==
    /\ p_stage = "calculate_regression_coefficients"
    /\ p_car' = CalculateCAR(p_ext.event_data, p_reg, p_in.event_date,
                             p_ext.event_idx_in_window, "none").rows
    /\ p_stage' = "calculate_CAR"
    /\ UNCHANGED <<p_in, p_ext, p_reg, p_out>>
    /\ UNCHANGED <<orchVars, idxVars, dataVars>>

\* lines 515-553, for a row of the event list with or without company_year
PFinish ==
    /\ p_stage = "calculate_CAR"
    /\ \E year \in {None, Some(2020)} :
         LET row_data == EventRow(600001, p_in.event_date, year)
             car_result == DropNa(CarResultColumns(p_car, row_data))
             test == SingleSampleTest(car_result, p_in.event_date, "none")
         IN  p_out' = Return(Some(car_result), Some(TTestColumns(test.rows, 600001)))
    /\ p_stage' = "returned"
    /\ UNCHANGED <<p_in, p_ext, p_reg, p_car>>
    /\ UNCHANGED <<orchVars, idxVars, dataVars>>

PipeNext ==
    \/ PExtract
    \/ PRegress
    \/ PCalculateCAR
    \/ PFinish

InitPipeline == OrchIdle /\ PipeInit /\ IdxIdle /\ DataIdle

SpecPipeline == InitPipeline /\ [][PipeNext]_vars

----------------------------------------------------------------------------
(* One call of _get_index_code, for company codes with every three-digit   *)
(* prefix and for an override that is absent, known, unknown or empty.     *)

CompanyCodes == {p * 1000 + s : p \in 0..MaxPrefix, s \in {1, 999}}

CustomIndexes == {None, Some("000300"), Some("000016"), Some("")}

IdxInit ==
    /\ idx_in \in [company_code : CompanyCodes, custom_index : CustomIndexes]
    /\ idx_out = [returned |-> FALSE, value |-> None]

\* lines 100-123
IGetIndexCode ==
    /\ ~idx_out.returned
    /\ idx_out' = [returned |-> TRUE,
                   value |-> GetIndexCode(idx_in.company_code, idx_in.custom_index)]
    /\ UNCHANGED idx_in
    /\ UNCHANGED <<orchVars, pipeVars, dataVars>>

InitIndex == OrchIdle /\ PipeIdle /\ IdxInit /\ DataIdle

SpecIndex == InitIndex /\ [][IGetIndexCode]_vars

----------------------------------------------------------------------------
(* One call of get_data followed by extract_event_data, as                 *)
(* process_event_wrapper makes them, for every index calendar and stock    *)
(* series within the bounds: the stock may have no row, or a row with a    *)
(* missing return, on a day the index trades.                              *)

\* the index rows read: a calendar of trading days, every return present
IndexSeries ==
    {[k \in 1..Cardinality(S) |-> Row(SortedSeqOf(S)[k], Some(1))] : S \in SUBSET (1..MaxDate)}

\* the stock rows read, in date order: on each day no row, a row with a
\* missing return, or a row with a return
StockSeries ==
    UNION {{[k \in 1..Cardinality(S) |-> Row(SortedSeqOf(S)[k], f[SortedSeqOf(S)[k]])] :
             f \in [S -> {None, Some(1)}]} :
           S \in SUBSET (1..MaxDate)}

DataInit ==
    /\ g_in \in [stock_data : StockSeries, index_data : IndexSeries,
                 event_date : 0..(MaxDate + 1), es : ParameterSets]
    /\ g_stage = "start"
    /\ g_merged = None
    /\ g_ext = ExtractFailed

\* lines 137-264 on the rows read
GGetData ==
    /\ g_stage = "start"
    /\ g_merged' = IF g_in.index_data = <<>> \/ g_in.stock_data = <<>> THEN None
                   ELSE AlignAndMerge(g_in.es, g_in.stock_data, g_in.index_data, g_in.event_date)
    /\ g_stage' = IF IsNone(g_merged') THEN "returned" ELSE "get_data"
    /\ UNCHANGED <<g_in, g_ext>>
    /\ UNCHANGED <<orchVars, pipeVars, idxVars>>

\* lines 504-507 on the frame get_data returned
GExtract ==
    /\ g_stage = "get_data"
    /\ g_ext' = ExtractEventData(g_in.es, g_in.event_date, Val(g_merged), "none")
    /\ g_stage' = IF g_ext'.ok THEN "extract_event_data" ELSE "returned"
    /\ UNCHANGED <<g_in, g_merged>>
    /\ UNCHANGED <<orchVars, pipeVars, idxVars>>

DataNext ==
    \/ GGetData
    \/ GExtract

InitData == OrchIdle /\ PipeIdle /\ IdxIdle /\ DataInit

SpecGetData == InitData /\ [][DataNext]_vars

----------------------------------------------------------------------------
(* Properties *)

RowsOf(frame, k) == SelectSeq(frame, LAMBDA r : Key(r) = k)

\* the outcome process_event_wrapper gives for a row when no stage is hit by
\* an exception from outside
Outcome(row_data) == WorkerOutcome[row_data]["none"]

\* the unit's significance test is defined: the t_test frame has its row
SigDefined(row_data) ==
    ~IsNone(Outcome(row_data).t_test) /\ Val(Outcome(row_data).t_test) # <<>>

\* C1: a unit whose abnormal-return rows are in the persisted stream when a
\* run starts is not in that run's task list, and during and after the run
\* neither stream holds more rows of its key than at the start, run after run.
IdempotentResume ==
    \A k \in Keys(start_car) :
        /\ \A i \in 1..Len(tasks) : Key(tasks[i]) # k
        /\ RowsOf(car_csv, k) = RowsOf(start_car, k)
        /\ RowsOf(t_test_csv, k) = RowsOf(start_t_test, k)

\* a second run that found a persisted unit of the event list, skipped it and
\* still wrote the rows of another unit
IdempotentResumeWitness ==
    /\ runs = 2
    /\ phase = "DONE"
    /\ \E i \in 1..Len(event_info) : Key(event_info[i]) \in Keys(start_car)
    /\ Len(car_csv) > Len(start_car)
    /\ Len(t_test_csv) > Len(start_t_test)

\* C2: no partial unit output is persisted: whenever main() is not in the
\* middle of writing one outcome (in particular after a kill and in the run
\* that resumes), a unit whose significance test is defined has rows in both
\* streams or in neither.
NoPartialUnitOutput ==
    phase # "WRITE_T_TEST" =>
        \A i \in 1..Len(event_info) :
            SigDefined(event_info[i]) =>
                (Key(event_info[i]) \in Keys(car_csv) <=> Key(event_info[i]) \in Keys(t_test_csv))

\* C3: the collect loop only ever sees (None, None) or a pair with both parts
\* present, an exception in any stage of any task gives (None, None), main()
\* is never aborted by a worker, and a finished run has handled every task.
FailureIsolation ==
    /\ phase # "ABORTED"
    /\ \A i \in 1..Len(results) :
          /\ results[i].outcome.kind = "return"
          /\ IsNone(results[i].outcome.car_result) <=> IsNone(results[i].outcome.t_test)
    /\ \A i \in 1..Len(tasks) : \A fault \in Faults \ {"none"} :
          WorkerOutcome[tasks[i]][fault] = Return(None, None)
    /\ (phase = "DONE" => handled = 1..Len(tasks))

\* a finished run in which a task failed first and a later outcome was still
\* collected and written
FailureIsolationWitness ==
    /\ phase = "DONE"
    /\ fail_count >= 1
    /\ success_count >= 1
    /\ Len(car_csv) > Len(start_car)

\* C4: the task list of a run holds each identity key at most once.
DispatchedAtMostOnce ==
    \A i, j \in 1..Len(tasks) : Key(tasks[i]) = Key(tasks[j]) => i = j

\* C5: the estimation slice ends at least estimation_window_gap rows before
\* the first row of the event window.
EstimationClearOfEventWindow ==
    (p_stage # "get_data" /\ p_ext.ok) =>
        EstimationEndIdx(p_in.es, p_in.data_frame, p_in.event_date)
            <= EventStartIdx(p_in.es, p_in.data_frame, p_in.event_date)
               - p_in.es.estimation_window_gap

\* consecutive integers in row order with exactly one zero
WellLabelled(rd) ==
    /\ \A i \in 1..(Len(rd) - 1) : rd[i + 1] = rd[i] + 1
    /\ Cardinality({i \in 1..Len(rd) : rd[i] = 0}) = 1

AlignedDate(dates, requested) ==
    IF requested \in dates THEN requested
    ELSE IF \E d \in dates : d > requested
    THEN CHOOSE d \in dates : d > requested /\ \A e \in dates : e > requested => d <= e
    ELSE CHOOSE d \in dates : \A e \in dates : Abs(d - requested) <= Abs(e - requested)

FrameDates == {p_in.data_frame[i].date : i \in 1..Len(p_in.data_frame)}

\* C7: the row extract_event_data takes as day zero bears the requested date
\* if the frame has it, else the earliest later date, else the nearest date;
\* calculate_CAR gives relative_day 0 to that row and to no other.
DayZeroAlignment ==
    /\ (p_stage # "get_data" /\ p_ext.ok) =>
           /\ p_ext.event_idx_in_window \in 0..(Len(p_ext.event_data) - 1)
           /\ Iloc(p_ext.event_data, p_ext.event_idx_in_window).date
                  = AlignedDate(FrameDates, p_in.event_date)
    /\ p_stage = "calculate_CAR" =>
           \A i \in 1..Len(p_car) :
               p_car[i].relative_day = 0 <=> p_car[i].date = AlignedDate(FrameDates, p_in.event_date)

\* a request that is no date of the frame, whose nearest row is earlier, and
\* which was resolved to the later row
DayZeroAlignmentWitness ==
    /\ p_stage = "calculate_CAR"
    /\ p_in.event_date \notin FrameDates
    /\ Iloc(p_in.data_frame, IdxMin(p_in.data_frame, p_in.event_date)).date < p_in.event_date
    /\ \E i \in 1..Len(p_car) : p_car[i].relative_day = 0 /\ p_car[i].date > p_in.event_date

\* C8: abnormal_return = stock_return - (alpha + beta * index_return), and
\* cumulative_abnormal_return is its running sum over the whole window: the
\* first row's equals its abnormal return, every later row adds its own to
\* the row before, and the last row's is the sum of all abnormal returns.
CarIsPrefixSum ==
    p_stage = "calculate_CAR" =>
        /\ \A k \in 1..Len(p_car) :
              /\ p_car[k].abnormal_return =
                     p_reg.den * p_car[k].stock_return
                     - (p_reg.alpha_num + p_reg.beta_num * p_car[k].index_return)
              /\ p_car[k].cumulative_abnormal_return =
                     (IF k = 1 THEN 0 ELSE p_car[k - 1].cumulative_abnormal_return)
                     + p_car[k].abnormal_return
        /\ p_car # <<>> =>
              p_car[Len(p_car)].cumulative_abnormal_return = SumSeq(Column(p_car, "abnormal_return"))

\* a window with a non-zero abnormal return before day zero, so that a sum
\* restarted at day zero would end on another value
CarIsPrefixSumWitness ==
    /\ p_stage = "calculate_CAR"
    /\ Len(p_car) >= 2
    /\ p_car[1].relative_day < 0
    /\ p_car[1].abnormal_return # 0
    /\ p_car[Len(p_car)].cumulative_abnormal_return # 0

\* the estimation window process_event_wrapper hands to the regression for a
\* row, when it gets that far
EstimationDataOf(row_data) ==
    LET es == EventStudy(EVENT_WINDOW_BEFORE, EVENT_WINDOW_AFTER,
                         ESTIMATION_WINDOW_LENGTH, ESTIMATION_WINDOW_GAP)
        merged_data == GetData(es, row_data.company_code, row_data.event_date,
                               Some("000300"), "none")
    IN  IF IsNone(merged_data) THEN None
        ELSE IF ~ExtractEventData(es, row_data.event_date, Val(merged_data), "none").ok THEN None
        ELSE Some(ExtractEventData(es, row_data.event_date, Val(merged_data), "none").estimation_data)

\* C9: a unit whose estimation window has fewer than 2 rows is skipped: no
\* outcome but (None, None) arrives for it and no row of it is persisted.
ShortEstimationSkipped ==
    \A i \in 1..Len(event_info) :
        (/\ ~IsNone(EstimationDataOf(event_info[i]))
         /\ Len(Val(EstimationDataOf(event_info[i]))) < 2) =>
            /\ Key(event_info[i]) \notin Keys(car_csv)
            /\ Key(event_info[i]) \notin Keys(t_test_csv)

\* C10: a unit whose zero-padded company code starts with 8 or 9 is skipped:
\* no row of it is persisted in either stream.
SkippedMarketNeverPersisted ==
    \A i \in 1..Len(event_info) :
        StartsWithAny(Zfill(Digits(event_info[i].company_code), 6), SkipPrefixes) =>
            /\ Key(event_info[i]) \notin Keys(car_csv)
            /\ Key(event_info[i]) \notin Keys(t_test_csv)

\* the first digit and the first three digits of the code padded to 6 digits
FirstDigit(company_code) == Zfill(Digits(company_code), 6)[1]

Prefix3(company_code) ==
    LET c == Zfill(Digits(company_code), 6)
    IN  100 * c[1] + 10 * c[2] + c[3]

\* C11: without an override, _get_index_code gives 000001 for the prefixes
\* 600, 601, 603, 605, 688, 689, gives 399106 for the prefixes 000, 001, 002,
\* 003, 300, 301, gives None for a first digit 8 or 9, and gives 000300 for
\* every other code; exactly one of the four cases applies to a code.
BenchmarkResolution ==
    (idx_out.returned /\ IsNone(idx_in.custom_index)) =>
        LET code == idx_in.company_code
            shanghai == Prefix3(code) \in {600, 601, 603, 605, 688, 689}
            shenzhen == Prefix3(code) \in {0, 1, 2, 3, 300, 301}
            skip8or9 == FirstDigit(code) \in {8, 9}
            other == ~shanghai /\ ~shenzhen /\ ~skip8or9
        IN  /\ shanghai => idx_out.value = Some("000001")
            /\ shenzhen => idx_out.value = Some("399106")
            /\ skip8or9 => idx_out.value = None
            /\ other => idx_out.value = Some("000300")
            /\ Cardinality({c \in {"sh", "sz", "skip", "other"} :
                              \/ c = "sh" /\ shanghai
                              \/ c = "sz" /\ shenzhen
                              \/ c = "skip" /\ skip8or9
                              \/ c = "other" /\ other}) = 1

\* the call returned the Shenzhen composite for a code of fewer than 6 digits
\* (002001, padded) and no override
BenchmarkResolutionWitness ==
    /\ idx_out.returned
    /\ IsNone(idx_in.custom_index)
    /\ idx_in.company_code = 2001
    /\ idx_out.value = Some("399106")

\* C12: every abnormal-return row process_event_wrapper returns for a unit
\* bears the unit's industry_code, company_province, company_city and
\* company_year, each equal to the value in the unit's row of the event list.
MetadataEchoed ==
    \A i \in 1..Len(results) :
        ~IsNone(results[i].outcome.car_result) =>
            \A k \in 1..Len(Val(results[i].outcome.car_result)) :
                LET r == Val(results[i].outcome.car_result)[k]
                    row_data == tasks[results[i].task]
                IN  \A f \in {"industry_code", "company_province", "company_city", "company_year"} :
                        f \in DOMAIN r /\ r[f] = row_data[f]

\* the positions of tasks whose outcome has arrived and waits in the iterator
Arrived == {results[i].task : i \in 1..Len(results)}

\* C13: a task is at every moment in exactly one place (with a worker, arrived
\* and not yet taken, being written, or handled) and is counted exactly when
\* the loop has taken it; a run is DONE only when every task has returned and
\* was handled, and then success_count + fail_count is the number of tasks;
\* and a run whose workers all return does reach DONE, whatever the order in
\* which the outcomes arrive.
TerminationAndAccounting ==
    /\ [](\A i \in 1..Len(tasks) :
            Cardinality({c \in {"pending", "arrived", "cur", "handled"} :
                            \/ c = "pending" /\ i \in pending
                            \/ c = "arrived" /\ i \in Arrived
                            \/ c = "cur" /\ phase = "WRITE_T_TEST" /\ cur.task = i
                            \/ c = "handled" /\ i \in handled}) = 1)
    /\ [](Cardinality(Arrived) = Len(results))
    /\ [](success_count + fail_count
            = Cardinality(handled) + (IF phase = "WRITE_T_TEST" THEN 1 ELSE 0))
    /\ [](phase = "DONE" =>
            /\ pending = {}
            /\ results = <<>>
            /\ handled = 1..Len(tasks)
            /\ success_count + fail_count = Len(tasks))
    /\ (phase \in {"COLLECT", "WRITE_T_TEST"}) ~> (phase = "DONE")

\* a finished first run of two units that both succeeded, the second of the
\* list having arrived and been written first
TerminationAndAccountingWitness ==
    /\ phase = "DONE"
    /\ runs = 1
    /\ Len(tasks) = 2
    /\ success_count = 2
    /\ fail_count = 0
    /\ car_csv # <<>>
    /\ Key(car_csv[1]) = Key(tasks[2])
    /\ Key(tasks[1]) # Key(tasks[2])

\* the task list the next start of main() would build from what is persisted
NextRunTasks == BuildTasks(event_info, ScanExisting(car_csv))

\* C14: a unit whose outcome was the skip outcome in this run was dispatched
\* once in this run (no other task of the run bears its key), its key is not
\* among the keys recovered from the persisted abnormal-return stream, and it
\* is in the task list of the next run.
SkippedPickedUpNextRun ==
    \A i \in skipped :
        /\ \A j \in 1..Len(tasks) : Key(tasks[j]) = Key(tasks[i]) => j = i
        /\ Key(tasks[i]) \notin ScanExisting(car_csv)
        /\ \E j \in 1..Len(NextRunTasks) : Key(NextRunTasks[j]) = Key(tasks[i])

\* C15: when main() ends on an error of its own (the event list cannot be
\* read, an output file cannot be written), no task was dispatched in that
\* run and neither stream holds more than when the run started.
OrchestratorErrorsBeforeDispatch ==
    phase = "FATAL" =>
        /\ tasks = <<>>
        /\ car_csv = start_car
        /\ t_test_csv = start_t_test

\* the positions of the rows of key k in a stream
PositionsOf(frame, k) == {i \in 1..Len(frame) : Key(frame[i]) = k}

\* C16: whatever the number of workers and the order of completion, the
\* pair of every success the loop has finished handling is in the two streams
\* before the next result is taken, and the abnormal-return rows of one unit
\* lie at consecutive positions of the stream, in increasing trading-date
\* order, with no row of another unit between them.
SerializedBlockWrites ==
    /\ \A i \in handled \ skipped :
          /\ \A k \in 1..Len(Val(Outcome(tasks[i]).car_result)) :
                \E m \in 1..Len(car_csv) : car_csv[m] = Val(Outcome(tasks[i]).car_result)[k]
          /\ \A k \in 1..Len(Val(Outcome(tasks[i]).t_test)) :
                \E m \in 1..Len(t_test_csv) : t_test_csv[m] = Val(Outcome(tasks[i]).t_test)[k]
    /\ \A key \in Keys(car_csv) :
          /\ \A i, j \in PositionsOf(car_csv, key) :
                \A m \in i..j : m \in PositionsOf(car_csv, key)
          /\ \A i, j \in PositionsOf(car_csv, key) :
                i < j => car_csv[i].trading_date < car_csv[j].trading_date

\* C17: for a non-empty series of n rows with day zero at row d, the event
\* window is exactly the rows max(0, d - before) .. min(n - 1, d + after) in
\* order, it holds the day-zero row, the returned position of day zero is
\* d - max(0, d - before), and extraction succeeds also when the window has
\* fewer than before + after + 1 rows.
EventWindowBounds ==
    (p_stage # "get_data" /\ p_in.data_frame # <<>>) =>
        LET n == Len(p_in.data_frame)
            d == EventIdx(p_in.data_frame, p_in.event_date)
            lo == IF d - p_in.es.event_window_before > 0
                  THEN d - p_in.es.event_window_before ELSE 0
            hi == IF d + p_in.es.event_window_after < n - 1
                  THEN d + p_in.es.event_window_after ELSE n - 1
        IN  /\ p_ext.ok
            /\ Len(p_ext.event_data) = hi - lo + 1
            /\ \A k \in 0..(hi - lo) : Iloc(p_ext.event_data, k) = Iloc(p_in.data_frame, lo + k)
            /\ lo <= d /\ d <= hi
            /\ p_ext.event_idx_in_window = d - lo
            /\ Iloc(p_ext.event_data, p_ext.event_idx_in_window) = Iloc(p_in.data_frame, d)

\* an extraction that succeeded with a window clipped at the first row of the
\* series, shorter than before + after + 1
EventWindowBoundsWitness ==
    /\ p_stage = "extract_event_data"
    /\ p_ext.ok
    /\ p_in.es.event_window_before = 1
    /\ p_in.es.event_window_after = 1
    /\ Len(p_in.data_frame) = 3
    /\ EventIdx(p_in.data_frame, p_in.event_date) = 0
    /\ Len(p_ext.event_data) = 2
    /\ p_ext.event_idx_in_window = 0

\* the CAR sample process_event_wrapper hands to single_sample_test for each
\* row of the event list (car_result after dropna), when it gets that far
CarSample ==
    [row_data \in EventCatalogue |->
        LET es == EventStudy(EVENT_WINDOW_BEFORE, EVENT_WINDOW_AFTER,
                             ESTIMATION_WINDOW_LENGTH, ESTIMATION_WINDOW_GAP)
            merged_data == GetData(es, row_data.company_code, row_data.event_date,
                                   Some("000300"), "none")
            ext == ExtractEventData(es, row_data.event_date, Val(merged_data), "none")
            reg == CalculateRegressionCoefficients(ext.estimation_data, "none")
            car == CalculateCAR(ext.event_data, reg, row_data.event_date,
                                ext.event_idx_in_window, "none")
        IN  IF IsNone(merged_data) THEN None
            ELSE IF ~ext.ok THEN None
            ELSE IF reg.raised \/ car.raised THEN None
            ELSE Some(DropNa(CarResultColumns(car.rows, row_data)))]

\* C18: a unit whose CAR sample has fewer than 2 rows is a success outcome
\* made of its abnormal-return rows and an empty significance frame; no error
\* reaches main(), no significance row of the unit is ever persisted, and once
\* the loop has handled the success its abnormal-return rows are persisted.
UndefinedSignificanceDropsOnlyTest ==
    /\ phase # "ABORTED"
    /\ \A i \in 1..Len(tasks) :
          (~IsNone(CarSample[tasks[i]]) /\ Len(Val(CarSample[tasks[i]])) < 2) =>
              /\ Outcome(tasks[i]) = Return(CarSample[tasks[i]], Some(<<>>))
              /\ Key(tasks[i]) \notin Keys(t_test_csv)
              /\ i \in handled \ skipped =>
                    \A k \in 1..Len(Val(CarSample[tasks[i]])) :
                        \E m \in 1..Len(car_csv) : car_csv[m] = Val(CarSample[tasks[i]])[k]

\* a finished run that counted as a success a unit with a single
\* abnormal-return row and persisted that row and no significance row
UndefinedSignificanceWitness ==
    /\ phase = "DONE"
    /\ \E i \in handled \ skipped :
          /\ ~IsNone(CarSample[tasks[i]])
          /\ Len(Val(CarSample[tasks[i]])) = 1
          /\ Key(tasks[i]) \in Keys(car_csv)
          /\ Key(tasks[i]) \notin Keys(t_test_csv)

\* C19: every unit the loop has counted as a success and finished handling
\* has a row of its key in the persisted abnormal-return stream, so that the
\* next start of main() recovers its key and does not dispatch it again.
SuccessRecognizedNextRun ==
    \A i \in handled \ skipped :
        /\ Key(tasks[i]) \in ScanExisting(car_csv)
        /\ \A j \in 1..Len(NextRunTasks) : Key(NextRunTasks[j]) # Key(tasks[i])

\* the rows the stock and the index have in common with both returns present
JoinedSeries == DropMissingReturns(Merge(g_in.stock_data, g_in.index_data))

\* C20: when extraction is reached, the day zero get_data resolved on the
\* index calendar is the date of the row extract_event_data took as day zero,
\* and the event window holds event_window_after rows after that row, or all
\* the later rows the joined series has when it has fewer.
DayZeroAgreement ==
    g_stage = "extract_event_data" =>
        LET day_zero == Iloc(g_ext.event_data, g_ext.event_idx_in_window).date
            rows_after == Len(g_ext.event_data) - 1 - g_ext.event_idx_in_window
            available == Cardinality({i \in 1..Len(JoinedSeries) : JoinedSeries[i].date > day_zero})
        IN  /\ ClosestTradingDay(g_in.index_data, g_in.event_date) = day_zero
            /\ rows_after = Min2(g_in.es.event_window_after, available)

====
